---- MODULE Spec2Model ----
(***************************************************************************)
(* Badminton-AI: the batched, threaded video path.                         *)
(*                                                                         *)
(*   badminton_ai/video_utils.py  VideoProcessor._batch_frames (generator) *)
(*                                VideoProcessor.process_video (generator) *)
(*                                VideoProcessor._process_single_frame     *)
(*   badminton_ai/pipeline.py     process_video_frames, fn_process_video,  *)
(*                                build_pipeline (the compiled graph)      *)
(*                                run_analysis                             *)
(*   badminton_ai/report_generator.py  generate_report                     *)
(*   main.py                      generate_reports                         *)
(*   src/data_pipeline.py         ParallelDataPipeline (task queue)        *)
(*                                                                         *)
(* A raw frame is identified by its raw index in the container.  A         *)
(* preprocessed frame is the raw index it was made from.  The pose         *)
(* estimator is external: its answer for a frame is a nondeterministic     *)
(* choice among "landmarks", "none" (no pose) and "raise".                 *)
(***************************************************************************)
EXTENDS Integers, Sequences, FiniteSets, TLC

\* ---------------------------------------------------------------- bounds
MaxFrames == 3
MaxRate == 3
MaxBatch == 3
MaxWorkers == 2
\* presentation-time distance of two raw frames of the input video, in ms
MsPerFrame == 40

VARIABLES
    has_path,      \* state["video_path"] is a non-empty string
    F,             \* number of raw frames cap.read() delivers before ret = False
    sample_rate,   \* process_video(sample_rate=...)
    batch_size,    \* process_video(batch_size=...)
    max_workers,   \* ThreadPoolExecutor(max_workers=...)
    cap,           \* the cv2.VideoCapture handle of _batch_frames
    genPc,         \* where the _batch_frames generator stands
    frame_count,   \* _batch_frames local frame_count
    genBatch,      \* _batch_frames local `batch`: an index into heap
    heap,          \* the FrameBatch objects created so far, by identity
    emitted,       \* heap indices of the batches yielded by _batch_frames, in order
    kept,          \* raw indices that passed the sampling test, in source order
    pvPc,          \* where the process_video generator stands
    pvBatch,       \* process_video loop variable `batch`: an index into heap, 0 = unbound
    futures,       \* the work items submitted to the executor so far, in submission order;
                   \* future_to_frame holds those of batch pvBatch
    yielded,       \* the result process_video yielded last, until its consumer appends it
    results,       \* process_video_frames local `results`
    outcome,       \* what the pose estimator did for each raw frame it was given
    raisedBy,      \* the exception process_video ended with, "" if none
    nodeOut,       \* what each graph node returned, by node name
    active,        \* nodes scheduled in the current superstep that have not run yet
    nextActive,    \* nodes triggered for the next superstep
    ranStep,       \* nodes that have run in the current superstep
    ran,           \* the nodes executed so far, in order
    gstate,        \* the graph's state channels as of the start of the superstep
    gPc,           \* the state of the compiled graph's invocation
    legacyOut,     \* what extract_frames gave its caller, None while it has not ended
    frame_cache,   \* VideoProcessor.frame_cache
    mKeypoints,    \* the keypoints argument of _calculate_metrics
    mInput,        \* that argument as the caller built it
    mRet,          \* how the last call of _calculate_metrics ended
    mFirst,        \* how the first call of _calculate_metrics ended
    mCalls,        \* number of calls of _calculate_metrics so far
    mOther,        \* a call of _calculate_metrics on another record, once made
    aPoints,       \* the arguments <<a, b, c>> of _calculate_angle
    aRet,          \* what the last call of _calculate_angle returned
    llmCall,       \* the report node's call of generate_report: arguments, and what the model call did
    reportPc,      \* where the fn_generate_report coroutine stands
    audioPc,       \* where the fn_audio_processing coroutine stands
    invoked,       \* how `await pipeline.ainvoke(initial_state)` ended
    raOut,         \* what run_analysis returned
    input_queue,   \* ParallelDataPipeline.input_queue: the heap list of its PriorityQueue
    dequeued,      \* the items the workers took from input_queue, in order
    taskRaised,    \* the exception a call on input_queue ended with, "" if none
    nTasks         \* number of ProcessingTasks created so far

inputVars == <<has_path, F, sample_rate, batch_size, max_workers>>
genVars   == <<cap, genPc, frame_count, genBatch, heap, emitted, kept>>
pvVars    == <<pvPc, pvBatch, futures, yielded, results, outcome, raisedBy>>
graphVars == <<nodeOut, active, nextActive, ranStep, ran, gstate, gPc>>
auxVars   == <<legacyOut, frame_cache, mKeypoints, mInput, mRet, mFirst, mCalls, mOther, aPoints, aRet>>
callerVars == <<llmCall, reportPc, audioPc, invoked, raOut>>
taskVars  == <<input_queue, dequeued, taskRaised, nTasks>>
vars      == <<inputVars, genVars, pvVars, graphVars, auxVars, callerVars, taskVars>>

\* ---------------------------------------------------------------- values
PoseOutcomes == {"landmarks", "none", "raise"}

Min(a, b) == IF a <= b THEN a ELSE b

RECURSIVE Flatten(_)
Flatten(ss) == IF ss = <<>> THEN <<>> ELSE Head(ss) \o Flatten(Tail(ss))

Range(s) == {s[i] : i \in 1..Len(s)}

\* FrameBatch([], [], [])
EmptyFrameBatch == [frames |-> <<>>, frame_numbers |-> <<>>, timestamps |-> <<>>]

\* cap.get(cv2.CAP_PROP_POS_MSEC) after reading raw frame i
PosMsec(i) == i * MsPerFrame

\* the keypoints dict built from the landmarks of one frame: the seven tracked
\* joints, all read from the landmarks of that frame
Joints == {"nose", "left_wrist", "right_wrist", "left_elbow", "right_elbow",
           "left_shoulder", "right_shoulder"}
Keypoints(frame) == [joints |-> Joints, of_frame |-> frame]

\* variant of _calculate_metrics whose elbow test looks at the shoulder and
\* the elbow only: all([shoulder, elbow])
CalculateMetricsNoWristTest(keypoints) ==
    (IF {"left_wrist", "right_wrist"} \subseteq keypoints.joints
        THEN {"wrist_distance"} ELSE {})
    \cup (IF {"left_shoulder", "left_elbow"} \subseteq keypoints.joints
        THEN {"left_elbow_angle"} ELSE {})
    \cup (IF {"right_shoulder", "right_elbow"} \subseteq keypoints.joints
        THEN {"right_elbow_angle"} ELSE {})

\* the keys _calculate_metrics puts into its mapping for a keypoints dict
\* (lines 217-243): wrist_distance when both wrist keys are `in` the dict, and
\* <side>_elbow_angle when .get() of that side's shoulder, elbow and wrist are
\* all truthy (a landmark dict is never empty, so truthy means present)
CalculateMetrics(keypoints) ==
    (IF {"left_wrist", "right_wrist"} \subseteq keypoints.joints
        THEN {"wrist_distance"} ELSE {})
    \cup (IF {"left_shoulder", "left_elbow", "left_wrist"} \subseteq keypoints.joints
        THEN {"left_elbow_angle"} ELSE {})
    \cup (IF {"right_shoulder", "right_elbow", "right_wrist"} \subseteq keypoints.joints
        THEN {"right_elbow_angle"} ELSE {})

\* Python's None, as a future's result, a node's missing output, an unbound value
NoneValue == [none |-> TRUE]

\* _process_single_frame(frame, frame_number, timestamp) when the estimator
\* answers o: the result dict, or None for "no landmarks" (line 177) and for
\* any exception (lines 201-203)
ProcessSingleFrame(frame, frame_number, timestamp, o) ==
    IF o = "landmarks"
    THEN [frame_number |-> frame_number,
          timestamp    |-> timestamp,
          keypoints    |-> Keypoints(frame),
          metrics      |-> CalculateMetrics(Keypoints(frame))]
    ELSE NoneValue

\* variant of the sampling test that keeps the last frame of every group
\* of sample_rate frames instead of the first
SampledShifted(count, rate) == count % rate = rate - 1

\* `if frame_count % sample_rate == 0`
Sampled(count, rate) == count % rate = 0

\* variant of the append that records no timestamp for the frame
AddToBatchNoTimestamp(batch, count) ==
    [frames        |-> Append(batch.frames, count),
     frame_numbers |-> Append(batch.frame_numbers, count),
     timestamps    |-> batch.timestamps]

\* lines 130-135: the preprocessed frame, its raw index and its timestamp are
\* appended to the three lists of the batch
AddToBatch(batch, count) ==
    [frames        |-> Append(batch.frames, count),
     frame_numbers |-> Append(batch.frame_numbers, count),
     timestamps    |-> Append(batch.timestamps, PosMsec(count))]

\* variant of the fullness test that lets one frame too many in
BatchFullLate(batch, size) == Len(batch.frames) > size

\* `if len(batch.frames) >= batch_size`
BatchFull(batch, size) == Len(batch.frames) >= size

\* variant of the end-of-stream test that never yields the remainder
HasRemainderDropped(batch) == FALSE

\* `if batch.frames:` at end of stream
HasRemainder(batch) == batch.frames # <<>>

\* variant without the release
FinallySkipped(c) == c

\* the `finally:` of _batch_frames: cap.release()
Finally(c) == "released"

\* `del batch.frames[:]`
ClearFrames(batch) == [batch EXCEPT !.frames = <<>>]

\* variant of the submission that pairs the frames, first to last, with the
\* frame numbers and timestamps last to first
SubmitBatchCrossed(batch) ==
    [k \in 1..Len(batch.frames) |->
        [frame_num   |-> batch.frame_numbers[Len(batch.frames) + 1 - k],
         frame       |-> batch.frames[k],
         timestamp   |-> batch.timestamps[Len(batch.frames) + 1 - k],
         holds_frame |-> TRUE,
         state       |-> "queued",
         result      |-> NoneValue,
         consumed    |-> FALSE]]

\* variant of the submission that goes over the batch twice
SubmitBatchTwice(batch) ==
    [k \in 1..(2 * Len(batch.frames)) |->
        [frame_num   |-> batch.frame_numbers[((k - 1) % Len(batch.frames)) + 1],
         frame       |-> batch.frames[((k - 1) % Len(batch.frames)) + 1],
         timestamp   |-> batch.timestamps[((k - 1) % Len(batch.frames)) + 1],
         holds_frame |-> TRUE,
         state       |-> "queued",
         result      |-> NoneValue,
         consumed    |-> FALSE]]

\* the futures process_video submits for a batch: one per
\* zip(batch.frames, batch.frame_numbers, batch.timestamps), in that order
SubmitBatch(batch) ==
    [k \in 1..Min(Len(batch.frames), Min(Len(batch.frame_numbers), Len(batch.timestamps))) |->
        [frame_num   |-> batch.frame_numbers[k],
         frame       |-> batch.frames[k],
         timestamp   |-> batch.timestamps[k],
         holds_frame |-> TRUE,
         state       |-> "queued",
         result      |-> NoneValue,
         consumed    |-> FALSE]]

\* os.cpu_count() unknown (None) is written 0; `os.cpu_count() or 1`
CpuOrOne(cpu_count) == IF cpu_count = 0 THEN 1 ELSE cpu_count

\* lines 74-77: the size of the pool; the max_workers argument is <<n>> when
\* the caller gives n and <<>> when it is omitted (None)
PoolSize(max_workers_arg, cpu_count) ==
    IF max_workers_arg = <<>>
    THEN Min(32, CpuOrOne(cpu_count) + 4)
    ELSE max_workers_arg[1]

\* the work item executor.submit puts on the pool's queue for a tuple of
\* batch number b
WorkItem(b, item) == [batch |-> b] @@ item

\* the work items made from batch b: the keys of its future_to_frame
OfBatch(fs, b) == {k \in 1..Len(fs) : fs[k].batch = b}

\* work items inside _process_single_frame
Running(fs) == {k \in 1..Len(fs) : fs[k].state = "running"}
Unfinished(fs) == {k \in 1..Len(fs) : fs[k].state # "done"}

\* work items a pool thread has taken from the queue and not dropped yet
Busy(fs) == {k \in 1..Len(fs) : fs[k].state # "queued" /\ fs[k].holds_frame}

\* ---------------------------------------------------------------- graph
Nodes == {"process_video_node", "audio_processing_node", "report_generation_node"}

\* graph.add_edge / set_finish_point of build_pipeline
Edges == {<<"process_video_node", "audio_processing_node">>,
          <<"audio_processing_node", "report_generation_node">>,
          <<"process_video_node", "report_generation_node">>}
EntryPoint == "process_video_node"
Successors(n) == {e[2] : e \in {d \in Edges : d[1] = n}}

\* the BadmintonState keys the registered nodes write
Channels == {"frames", "transcript", "report", "errors"}

ErrorEntry(step, msg) == [step |-> step, error |-> msg]

\* ---------------------------------------------------------------- initial state
\* run_analysis has not invoked the pipeline and no report has been asked for
CallerInit ==
    /\ llmCall = NoneValue
    /\ reportPc = "idle"
    /\ audioPc = "idle"
    /\ invoked = NoneValue
    /\ raOut = NoneValue

\* ParallelDataPipeline.__init__: input_queue = queue.PriorityQueue(), empty
TaskInit ==
    /\ input_queue = <<>>
    /\ dequeued = <<>>
    /\ taskRaised = ""
    /\ nTasks = 0

\* VideoProcessor.__init__ (frame_cache = {}); no helper has been called
AuxInit ==
    /\ legacyOut = NoneValue
    /\ frame_cache = {}
    /\ mKeypoints = NoneValue
    /\ mInput = NoneValue
    /\ mRet = NoneValue
    /\ mFirst = NoneValue
    /\ mCalls = 0
    /\ mOther = NoneValue
    /\ aPoints = <<>>
    /\ aRet = ""

\* nothing of the video has been touched, no node has run
RunInit ==
    /\ cap = "unopened"
    /\ genPc = "created"
    /\ frame_count = 0
    /\ genBatch = 0
    /\ heap = <<>>
    /\ emitted = <<>>
    /\ kept = <<>>
    /\ pvPc = "idle"
    /\ pvBatch = 0
    /\ futures = <<>>
    /\ yielded = NoneValue
    /\ results = <<>>
    /\ outcome = [i \in 0..(MaxFrames - 1) |-> "unseen"]
    /\ raisedBy = ""
    /\ nodeOut = [n \in Nodes |-> NoneValue]
    /\ active = {EntryPoint}
    /\ nextActive = {}
    /\ ranStep = {}
    /\ ran = <<>>
    /\ gstate = [frames |-> <<>>, transcript |-> "", report |-> "", errors |-> <<>>]
    /\ gPc = "running"

\* run_analysis / web_app.analyze: initial_state has frames = [], transcript = "",
\* report = "", errors = []; nothing of the video has been touched yet.
\* process_video_frames passes batch_size and max_workers = multiprocessing.cpu_count().
Init ==
    /\ has_path \in BOOLEAN
    /\ F \in 0..MaxFrames
    /\ sample_rate \in 1..MaxRate
    /\ batch_size \in 1..MaxBatch
    /\ max_workers \in {PoolSize(<<c>>, c) : c \in 1..MaxWorkers}
    /\ AuxInit
    /\ RunInit
    /\ CallerInit
    /\ TaskInit

\* ---------------------------------------------------------------- _batch_frames
\* The generator runs only while process_video is inside next() on it.
GenMayRun == pvPc = "next"

\* lines 113-119, the container opens: cap, batch = FrameBatch([], [], []), frame_count = 0
GenOpen ==
    /\ GenMayRun /\ genPc = "created"
    /\ cap' = "open"
    /\ heap' = Append(heap, EmptyFrameBatch)
    /\ genBatch' = Len(heap) + 1
    /\ frame_count' = 0
    /\ genPc' = "loop"
    /\ UNCHANGED <<emitted, kept, inputVars, auxVars, callerVars, taskVars, pvVars, graphVars>>

\* lines 113-115, cap.isOpened() is false: IOError, raised before the try block;
\* it leaves process_video through the `with` (no task was ever submitted)
GenOpenFail ==
    /\ GenMayRun /\ genPc = "created"
    /\ cap' = "failed"
    /\ genPc' = "raised"
    /\ pvPc' = "raising"
    /\ raisedBy' = "IOError"
    /\ UNCHANGED <<frame_count, genBatch, heap, emitted, kept, inputVars, auxVars, callerVars, taskVars, graphVars,
                   pvBatch, futures, yielded, results, outcome>>

\* the generator suspends at a `yield batch`: process_video binds its loop
\* variable to the very same FrameBatch object
YieldBatch(pc) ==
    /\ genPc' = pc
    /\ emitted' = Append(emitted, genBatch)
    /\ pvBatch' = genBatch
    /\ pvPc' = "submit"

\* the generator returns: finally block, then StopIteration ends the for loop
\* of process_video, which goes on to the exit of the `with` block
GenReturn ==
    /\ cap' = Finally(cap)
    /\ genPc' = "exhausted"
    /\ pvPc' = "returning"

\* lines 122-126: cap.read() gives ret = False
GenEndOfStream ==
    /\ GenMayRun /\ genPc = "loop"
    /\ frame_count >= F
    /\ IF HasRemainder(heap[genBatch])
       THEN /\ YieldBatch("yielded_rest")
            /\ UNCHANGED <<cap>>
       ELSE /\ GenReturn
            /\ UNCHANGED <<emitted, pvBatch>>
    /\ UNCHANGED <<frame_count, genBatch, heap, kept, inputVars, auxVars, callerVars, taskVars, graphVars,
                   futures, yielded, results, outcome, raisedBy>>

\* lines 122-142: a frame is read and frame_count % sample_rate == 0: it is
\* preprocessed and appended with its index and timestamp; a full batch is yielded
GenKeepFrame ==
    /\ GenMayRun /\ genPc = "loop"
    /\ frame_count < F
    /\ Sampled(frame_count, sample_rate)
    /\ LET nb == AddToBatch(heap[genBatch], frame_count)
       IN /\ heap' = [heap EXCEPT ![genBatch] = nb]
          /\ kept' = Append(kept, frame_count)
          /\ IF BatchFull(nb, batch_size)
             THEN /\ YieldBatch("yielded_full")
                  /\ UNCHANGED <<frame_count>>
             ELSE /\ frame_count' = frame_count + 1
                  /\ UNCHANGED <<genPc, emitted, pvBatch, pvPc>>
    /\ UNCHANGED <<cap, genBatch, inputVars, auxVars, callerVars, taskVars, graphVars,
                   futures, yielded, results, outcome, raisedBy>>

\* lines 122-142: a frame is read and skipped by the sampling test
GenSkipFrame ==
    /\ GenMayRun /\ genPc = "loop"
    /\ frame_count < F
    /\ ~Sampled(frame_count, sample_rate)
    /\ frame_count' = frame_count + 1
    /\ UNCHANGED <<cap, genPc, genBatch, heap, emitted, kept, inputVars, auxVars, callerVars, taskVars, pvVars, graphVars>>

\* cap.read() or _preprocess_frame raises inside the try block: the finally
\* block runs and the exception leaves process_video
GenFrameRaise ==
    /\ GenMayRun /\ genPc = "loop"
    /\ frame_count < F
    /\ cap' = Finally(cap)
    /\ genPc' = "raised"
    /\ pvPc' = "raising"
    /\ raisedBy' = "frame"
    /\ UNCHANGED <<frame_count, genBatch, heap, emitted, kept, inputVars, auxVars, callerVars, taskVars, graphVars,
                   pvBatch, futures, yielded, results, outcome>>

\* lines 140-142: resumed after yielding a full batch: batch = FrameBatch([], [], []),
\* frame_count += 1
GenResume ==
    /\ GenMayRun /\ genPc = "yielded_full"
    /\ heap' = Append(heap, EmptyFrameBatch)
    /\ genBatch' = Len(heap) + 1
    /\ frame_count' = frame_count + 1
    /\ genPc' = "loop"
    /\ UNCHANGED <<cap, emitted, kept, inputVars, auxVars, callerVars, taskVars, pvVars, graphVars>>

\* line 126: resumed after yielding the remainder: break
GenResumeLast ==
    /\ GenMayRun /\ genPc = "yielded_rest"
    /\ GenReturn
    /\ UNCHANGED <<frame_count, genBatch, heap, emitted, kept, inputVars, auxVars, callerVars, taskVars, graphVars,
                   pvBatch, futures, yielded, results, outcome, raisedBy>>

\* ---------------------------------------------------------------- process_video
\* lines 81-91: one executor.submit of the dict comprehension: the next tuple
\* of zip(batch.frames, batch.frame_numbers, batch.timestamps) becomes a work
\* item on the pool's queue; pool threads work while the rest is submitted.
\* After the last one future_to_frame is bound and as_completed is entered.
Submit ==
    /\ pvPc = "submit"
    /\ LET items == SubmitBatch(heap[pvBatch])
           n     == Cardinality(OfBatch(futures, pvBatch))
       IN IF n < Len(items)
          THEN /\ futures' = Append(futures, WorkItem(pvBatch, items[n + 1]))
               /\ pvPc' = IF n + 1 = Len(items) THEN "collect" ELSE "submit"
          ELSE /\ pvPc' = "collect"
               /\ UNCHANGED futures
    /\ UNCHANGED <<pvBatch, yielded, results, outcome, raisedBy,
                   inputVars, auxVars, callerVars, taskVars, genVars, graphVars>>

\* variant of the pool that starts a thread for every submitted work item
WorkerStartUnbounded ==
    \E k \in 1..Len(futures) :
        /\ futures[k].state = "queued"
        /\ \A j \in 1..(k - 1) : futures[j].state # "queued"
        /\ futures' = [futures EXCEPT ![k].state = "running"]
        /\ UNCHANGED <<pvPc, pvBatch, yielded, results, outcome, raisedBy,
                       inputVars, auxVars, callerVars, taskVars, genVars, graphVars>>

\* a pool thread takes the oldest queued work item; the pool has max_workers
\* threads, and a thread has one work item at a time
WorkerStart ==
    \E k \in 1..Len(futures) :
        /\ futures[k].state = "queued"
        /\ \A j \in 1..(k - 1) : futures[j].state # "queued"
        /\ Cardinality(Busy(futures)) < max_workers
        /\ futures' = [futures EXCEPT ![k].state = "running"]
        /\ UNCHANGED <<pvPc, pvBatch, yielded, results, outcome, raisedBy,
                       inputVars, auxVars, callerVars, taskVars, genVars, graphVars>>

\* _process_single_frame returns in a pool thread and the work item resolves
\* its future with the return value (future.set_result), which wakes
\* as_completed; the thread still has the work item and its arguments
WorkerFinish ==
    \E k \in 1..Len(futures), o \in PoseOutcomes :
        /\ futures[k].state = "running"
        /\ futures' = [futures EXCEPT
                         ![k].state = "done",
                         ![k].result = ProcessSingleFrame(futures[k].frame,
                                          futures[k].frame_num, futures[k].timestamp, o)]
        /\ outcome' = [outcome EXCEPT ![futures[k].frame] = o]
        /\ UNCHANGED <<pvPc, pvBatch, yielded, results, raisedBy,
                       inputVars, auxVars, callerVars, taskVars, genVars, graphVars>>

\* the pool thread drops the work item it has run, and with it the frame
\* (`del work_item`), and is free for the next one
WorkerRelease ==
    \E k \in 1..Len(futures) :
        /\ futures[k].state = "done"
        /\ futures[k].holds_frame
        /\ futures' = [futures EXCEPT ![k].holds_frame = FALSE]
        /\ UNCHANGED <<pvPc, pvBatch, yielded, results, outcome, raisedBy,
                       inputVars, auxVars, callerVars, taskVars, genVars, graphVars>>

\* variant of the fan-in in which a frame whose inference raised ends the run:
\* the exception is caught neither in the worker nor at future.result()
CollectPropagating ==
    \E k \in OfBatch(futures, pvBatch) :
        /\ pvPc = "collect"
        /\ futures[k].state = "done"
        /\ ~futures[k].consumed
        /\ futures' = [futures EXCEPT ![k].consumed = TRUE]
        /\ IF futures[k].result # NoneValue
           THEN /\ yielded' = futures[k].result
                /\ pvPc' = "yielded"
                /\ UNCHANGED raisedBy
           ELSE IF outcome[futures[k].frame] = "raise"
           THEN /\ pvPc' = "raising"
                /\ raisedBy' = "inference"
                /\ UNCHANGED yielded
           ELSE UNCHANGED <<yielded, pvPc, raisedBy>>
        /\ UNCHANGED <<pvBatch, results, outcome, inputVars, auxVars, callerVars, taskVars, genVars, graphVars>>

\* variant of the fan-in that takes a finished future only when its result
\* is truthy
CollectTruthyOnly ==
    \E k \in OfBatch(futures, pvBatch) :
        /\ pvPc = "collect"
        /\ futures[k].state = "done"
        /\ ~futures[k].consumed
        /\ futures[k].result # NoneValue
        /\ futures' = [futures EXCEPT ![k].consumed = TRUE]
        /\ yielded' = futures[k].result
        /\ pvPc' = "yielded"
        /\ UNCHANGED <<pvBatch, results, outcome, raisedBy,
                       inputVars, auxVars, callerVars, taskVars, genVars, graphVars>>

\* lines 94-101: as_completed(future_to_frame) hands over a finished future of
\* the batch; a truthy result is yielded, a None result is passed over
Collect ==
    \E k \in OfBatch(futures, pvBatch) :
        /\ pvPc = "collect"
        /\ futures[k].state = "done"
        /\ ~futures[k].consumed
        /\ futures' = [futures EXCEPT ![k].consumed = TRUE]
        /\ IF futures[k].result # NoneValue
           THEN /\ yielded' = futures[k].result
                /\ pvPc' = "yielded"
           ELSE UNCHANGED <<yielded, pvPc>>
        /\ UNCHANGED <<pvBatch, results, outcome, raisedBy,
                       inputVars, auxVars, callerVars, taskVars, genVars, graphVars>>

\* pipeline.py lines 58-64: the consumer appends the yielded result and asks for
\* the next one
ConsumerAppend ==
    /\ pvPc = "yielded"
    /\ gPc = "running"
    /\ results' = Append(results, yielded)
    /\ yielded' = NoneValue
    /\ pvPc' = "collect"
    /\ UNCHANGED <<pvBatch, futures, outcome, raisedBy, inputVars, auxVars, callerVars, taskVars, genVars, graphVars>>

\* line 104: as_completed is exhausted; del batch.frames[:], then next(batches)
ClearBatch ==
    /\ pvPc = "collect"
    /\ \A k \in OfBatch(futures, pvBatch) : futures[k].consumed
    /\ heap' = [heap EXCEPT ![pvBatch] = ClearFrames(heap[pvBatch])]
    /\ pvPc' = "next"
    /\ UNCHANGED <<cap, genPc, frame_count, genBatch, emitted, kept,
                   pvBatch, futures, yielded, results, outcome, raisedBy,
                   inputVars, auxVars, callerVars, taskVars, graphVars>>

\* The consumer stops iterating while process_video is suspended at
\* `yield result` (the generator is closed or collected, e.g. on an interrupt):
\* GeneratorExit unwinds the for loop, which drops the _batch_frames generator
\* suspended at its yield inside the try block (its finally runs), and reaches
\* the `with`, whose exit is executor.shutdown(wait=True). The result that was
\* yielded stays with the consumer, which never appends it.
Abandon ==
    /\ pvPc = "yielded"
    /\ gPc = "running"
    /\ cap' = Finally(cap)
    /\ genPc' = "closed"
    /\ pvPc' = "closing"
    /\ gPc' = "interrupted"
    /\ UNCHANGED <<frame_count, genBatch, heap, emitted, kept,
                   pvBatch, futures, yielded, results, outcome, raisedBy,
                   inputVars, auxVars, callerVars, taskVars, nodeOut, active, nextActive, ranStep, ran, gstate>>

\* how process_video ends once the `with` block has been left
AfterShutdown(pc) ==
    IF pc = "returning" THEN "done"
    ELSE IF pc = "raising" THEN "raised"
    ELSE "closed"

\* the exit of the `with` block, on each way out of it: executor.shutdown(wait=True)
\* returns once every submitted work item has been run and every pool thread
\* has ended
ShutdownDone ==
    /\ pvPc \in {"returning", "raising", "closing"}
    /\ Unfinished(futures) = {}
    /\ Busy(futures) = {}
    /\ pvPc' = AfterShutdown(pvPc)
    /\ UNCHANGED <<pvBatch, futures, yielded, results, outcome, raisedBy,
                   inputVars, auxVars, callerVars, taskVars, genVars, graphVars>>

\* ---------------------------------------------------------------- graph nodes
\* a node function has returned `out`: its successors are triggered for the
\* next superstep
CompleteNode(n, out) ==
    /\ nodeOut' = [nodeOut EXCEPT ![n] = out]
    /\ ran' = Append(ran, n)
    /\ ranStep' = ranStep \cup {n}
    /\ active' = active \ {n}
    /\ nextActive' = nextActive \cup Successors(n)
    /\ UNCHANGED <<gstate, gPc>>

MayRun(n) == gPc = "running" /\ n \in active

\* fn_process_video lines 97-108: no video path: an error entry; otherwise
\* process_video_frames starts iterating process_video
PVNodeEnter ==
    /\ MayRun("process_video_node")
    /\ pvPc = "idle"
    /\ IF ~has_path
       THEN /\ CompleteNode("process_video_node",
                    [errors |-> Append(gstate.errors,
                        ErrorEntry("process_video", "No video path provided"))])
            /\ UNCHANGED <<pvPc>>
       ELSE /\ pvPc' = "next"
            /\ UNCHANGED graphVars
    /\ UNCHANGED <<pvBatch, futures, yielded, results, outcome, raisedBy,
                   inputVars, auxVars, callerVars, taskVars, genVars>>

\* what fn_process_video returns once process_video_frames has returned
\* pose_results (lines 110-126): an empty list raises ValueError, which the
\* node's own handler turns into an error entry
ProcessVideoReturn(pose_results, errors) ==
    IF pose_results = <<>>
    THEN [errors |-> Append(errors, ErrorEntry("process_video",
              "Video processing failed: No pose detection results returned"))]
    ELSE [frames       |-> [k \in 1..Len(pose_results) |-> pose_results[k].keypoints],
          pose_metrics |-> [k \in 1..Len(pose_results) |-> pose_results[k].metrics],
          timestamps   |-> [k \in 1..Len(pose_results) |-> pose_results[k].timestamp],
          errors       |-> errors]

\* what fn_process_video returns when process_video_frames raised (lines 121-126)
ProcessVideoExcept(why, errors) ==
    [errors |-> Append(errors, ErrorEntry("process_video",
        IF why = "IOError" THEN "Video processing failed: Cannot open video file"
                           ELSE "Video processing failed: frame error"))]

\* process_video is exhausted: process_video_frames returns its list
PVNodeReturn ==
    /\ MayRun("process_video_node")
    /\ pvPc = "done"
    /\ CompleteNode("process_video_node", ProcessVideoReturn(results, gstate.errors))
    /\ UNCHANGED <<pvPc, pvBatch, futures, yielded, results, outcome, raisedBy,
                   inputVars, auxVars, callerVars, taskVars, genVars>>

\* process_video raised: process_video_frames logs and re-raises (lines 67-69),
\* fn_process_video catches
PVNodeExcept ==
    /\ MayRun("process_video_node")
    /\ pvPc = "raised"
    /\ CompleteNode("process_video_node", ProcessVideoExcept(raisedBy, gstate.errors))
    /\ UNCHANGED <<pvPc, pvBatch, futures, yielded, results, outcome, raisedBy,
                   inputVars, auxVars, callerVars, taskVars, genVars>>

\* fn_audio_processing (lines 129-158); extract_audio may raise, transcribe
\* returns a string in every case
AudioReturn(ok, errors) ==
    IF ~has_path
    THEN [errors |-> Append(errors, ErrorEntry("audio_processing",
              "No video path provided for audio extraction"))]
    ELSE IF ok
    THEN [transcript |-> "transcript", errors |-> errors]
    ELSE [transcript |-> "",
          errors |-> Append(errors, ErrorEntry("audio_processing",
              "Audio processing failed"))]

\* fn_audio_processing lines 131-142: without a video path the node returns
\* at once; otherwise extract_audio is called through asyncio.to_thread and
\* the coroutine is suspended at the await
AudioNodeEnter ==
    /\ MayRun("audio_processing_node")
    /\ audioPc = "idle"
    /\ IF ~has_path
       THEN /\ CompleteNode("audio_processing_node", AudioReturn(FALSE, gstate.errors))
            /\ UNCHANGED audioPc
       ELSE /\ audioPc' = "extracting"
            /\ UNCHANGED graphVars
    /\ UNCHANGED <<inputVars, auxVars, llmCall, reportPc, invoked, raOut, taskVars, genVars, pvVars>>

\* lines 139-148: the event loop resumes the coroutine with what extract_audio
\* did: it raised and the handler returns, or transcribe is called through
\* asyncio.to_thread and the coroutine is suspended again
AudioExtracted ==
    /\ MayRun("audio_processing_node")
    /\ audioPc = "extracting"
    /\ \E ok \in BOOLEAN :
          IF ok
          THEN /\ audioPc' = "transcribing"
               /\ UNCHANGED graphVars
          ELSE /\ CompleteNode("audio_processing_node", AudioReturn(FALSE, gstate.errors))
               /\ audioPc' = "idle"
    /\ UNCHANGED <<inputVars, auxVars, llmCall, reportPc, invoked, raOut, taskVars, genVars, pvVars>>

\* lines 145-150: the coroutine is resumed with the transcript and the node
\* returns its dict
AudioNodeReturn ==
    /\ MayRun("audio_processing_node")
    /\ audioPc = "transcribing"
    /\ CompleteNode("audio_processing_node", AudioReturn(TRUE, gstate.errors))
    /\ audioPc' = "idle"
    /\ UNCHANGED <<inputVars, auxVars, llmCall, reportPc, invoked, raOut, taskVars, genVars, pvVars>>

\* state.get(key, default) on the state a node is given: the channels of
\* BadmintonState
StateGet(state, key, default) == IF key \in DOMAIN state THEN state[key] ELSE default

\* what can happen inside fn_generate_report: init_gemini raises, the model
\* call inside generate_report raises, or a text comes back
ReportOutcomes == {"ok", "init_raises", "llm_raises"}

\* generate_report (report_generator.py lines 124-194): its own handler turns
\* every exception into a returned string
GenerateReport(pose_metrics, transcription, llm) ==
    IF llm = "raises" THEN "Error generating report" ELSE "report"

\* the call of lines 202-209, with what the model call does
ReportCall(state, o) ==
    [pose_metrics  |-> StateGet(state, "pose_metrics", <<>>),
     transcription |-> StateGet(state, "transcript", ""),
     llm           |-> IF o = "llm_raises" THEN "raises" ELSE "ok"]

\* variant of the failure path that returns the new entry alone
ReportReturnFresh(o, state) ==
    IF o = "init_raises"
    THEN [errors |-> <<ErrorEntry("report_generation", "Report generation failed")>>]
    ELSE [report |-> GenerateReport(ReportCall(state, o).pose_metrics,
                                    ReportCall(state, o).transcription,
                                    ReportCall(state, o).llm),
          errors |-> StateGet(state, "errors", <<>>)]

\* fn_generate_report, the definition in force (lines 194-214): whatever
\* generate_report returns is stored as the report; only an exception of
\* init_gemini (or of the call itself) reaches the handler
ReportReturn(o, state) ==
    IF o = "init_raises"
    THEN [errors |-> Append(StateGet(state, "errors", <<>>),
              ErrorEntry("report_generation", "Report generation failed"))]
    ELSE [report |-> GenerateReport(ReportCall(state, o).pose_metrics,
                                    ReportCall(state, o).transcription,
                                    ReportCall(state, o).llm),
          errors |-> StateGet(state, "errors", <<>>)]

\* what the model call of a recorded call of generate_report did, as an
\* outcome of the node
CallOutcome(call) == IF call.llm = "raises" THEN "llm_raises" ELSE "ok"

\* fn_generate_report lines 196-203: init_gemini raises and the handler returns
\* at once, or generate_report is called through asyncio.to_thread and the
\* coroutine is suspended at the await while the call runs in a thread
ReportNodeCall ==
    /\ MayRun("report_generation_node")
    /\ reportPc = "idle"
    /\ \E o \in ReportOutcomes :
          IF o = "init_raises"
          THEN /\ CompleteNode("report_generation_node", ReportReturn(o, gstate))
               /\ UNCHANGED <<llmCall, reportPc>>
          ELSE /\ llmCall' = ReportCall(gstate, o)
               /\ reportPc' = "awaiting"
               /\ UNCHANGED graphVars
    /\ UNCHANGED <<inputVars, auxVars, audioPc, invoked, raOut, taskVars, genVars, pvVars>>

\* lines 203-214: the event loop resumes the coroutine with what the call
\* returned, and the node returns its dict
ReportNodeReturn ==
    /\ MayRun("report_generation_node")
    /\ reportPc = "awaiting"
    /\ CompleteNode("report_generation_node", ReportReturn(CallOutcome(llmCall), gstate))
    /\ reportPc' = "idle"
    /\ UNCHANGED <<inputVars, auxVars, llmCall, audioPc, invoked, raOut, taskVars, genVars, pvVars>>

\* the nodes of this superstep that wrote channel c
Writers(c) == {n \in ranStep : c \in DOMAIN nodeOut[n]}

\* BadmintonState declares no reducer: a channel takes one value per superstep
Conflict == \E c \in Channels : Cardinality(Writers(c)) > 1

Merged ==
    [c \in Channels |->
        IF Writers(c) = {} THEN gstate[c]
        ELSE nodeOut[CHOOSE n \in Writers(c) : TRUE][c]]

\* every node of the superstep has returned: the writes are applied and the
\* triggered nodes become the next superstep
GraphStep ==
    /\ gPc = "running"
    /\ active = {}
    /\ IF Conflict
       THEN /\ gPc' = "raised"
            /\ invoked' = [raised |-> "InvalidUpdateError"]
            /\ UNCHANGED <<gstate, active>>
       ELSE /\ gstate' = Merged
            /\ active' = nextActive
            /\ gPc' = IF nextActive = {} THEN "finished" ELSE "running"
            /\ invoked' = IF nextActive = {} THEN [state |-> Merged] ELSE invoked
    /\ nextActive' = {}
    /\ ranStep' = {}
    /\ UNCHANGED <<nodeOut, ran, inputVars, auxVars, llmCall, reportPc, audioPc, raOut, taskVars, genVars, pvVars>>

\* ---------------------------------------------------------------- run_analysis
\* lines 326-340: the handler's return value
Failure(msg) ==
    [errors   |-> <<ErrorEntry("pipeline_execution", msg)>>,
     metadata |-> [success |-> FALSE]]

\* lines 310-320: the success value
Success(state) ==
    [analysis |-> state,
     metadata |-> [success |-> TRUE]]

\* pipeline.py neither defines nor imports the name update_progress that
\* line 322 calls
UpdateProgressDefined == FALSE

\* run_analysis from line 291 on, given how ainvoke ended: an exception or an
\* empty result goes to the handler; otherwise the success value is built and
\* line 322 is executed before `return result`
RunAnalysis(inv) ==
    IF "raised" \in DOMAIN inv
    THEN Failure("Analysis failed: pipeline raised")
    ELSE IF "empty" \in DOMAIN inv
    THEN Failure("Analysis failed: Pipeline execution returned no results")
    ELSE IF UpdateProgressDefined
    THEN Success(inv.state)
    ELSE Failure("Analysis failed: name 'update_progress' is not defined")

\* ainvoke has ended: run_analysis returns
RunAnalysisReturn ==
    /\ invoked # NoneValue
    /\ raOut = NoneValue
    /\ raOut' = RunAnalysis(invoked)
    /\ UNCHANGED <<llmCall, reportPc, audioPc, invoked, inputVars, genVars, pvVars, graphVars, auxVars, taskVars>>

\* main.generate_reports lines 532-534: the arguments it gives generate_report
\* from what run_analysis returned
MainReportArgs(analysis_results) ==
    [pose_metrics  |-> StateGet(analysis_results, "pose_metrics", <<>>),
     transcription |-> StateGet(analysis_results, "transcription", "")]

\* ---------------------------------------------------------------- specification
Next ==
    \/ PVNodeEnter
    \/ GenOpen
    \/ GenOpenFail
    \/ GenEndOfStream
    \/ GenKeepFrame
    \/ GenSkipFrame
    \/ GenFrameRaise
    \/ GenResume
    \/ GenResumeLast
    \/ Submit
    \/ WorkerStart
    \/ WorkerFinish
    \/ WorkerRelease
    \/ Collect
    \/ ConsumerAppend
    \/ ClearBatch
    \/ Abandon
    \/ ShutdownDone
    \/ PVNodeReturn
    \/ PVNodeExcept
    \/ AudioNodeEnter
    \/ AudioExtracted
    \/ AudioNodeReturn
    \/ ReportNodeCall
    \/ ReportNodeReturn
    \/ GraphStep
    \/ RunAnalysisReturn

Spec == Init /\ [][Next]_vars

\* ---------------------------------------------------------------- extract_frames
\* video_utils.py line 22
DEFAULT_BATCH_SIZE == 16

\* extract_frames(video_path, sample_rate): a path is given, process_video is
\* called with its default batch size and no max_workers, on a machine whose
\* cpu count is unknown (0) or known
InitLegacy ==
    /\ has_path = TRUE
    /\ F \in 0..MaxFrames
    /\ sample_rate \in 1..MaxRate
    /\ batch_size = DEFAULT_BATCH_SIZE
    /\ max_workers \in {PoolSize(<<>>, c) : c \in 0..MaxWorkers}
    /\ AuxInit
    /\ RunInit
    /\ CallerInit
    /\ TaskInit

\* lines 264-266: the for loop of extract_frames asks process_video for its
\* first result
ExtractFramesEnter ==
    /\ pvPc = "idle"
    /\ legacyOut = NoneValue
    /\ pvPc' = "next"
    /\ UNCHANGED <<pvBatch, futures, yielded, results, outcome, raisedBy,
                   inputVars, auxVars, callerVars, taskVars, genVars, graphVars>>

\* line 267: frames.append(result['keypoints'])
ExtractFramesAppend ==
    /\ pvPc = "yielded"
    /\ results' = Append(results, yielded.keypoints)
    /\ yielded' = NoneValue
    /\ pvPc' = "collect"
    /\ UNCHANGED <<pvBatch, futures, outcome, raisedBy,
                   inputVars, auxVars, callerVars, taskVars, genVars, graphVars>>

\* line 268: process_video is exhausted: return frames
ExtractFramesReturn ==
    /\ pvPc = "done"
    /\ legacyOut = NoneValue
    /\ legacyOut' = [frames |-> results]
    /\ UNCHANGED <<frame_cache, mKeypoints, mInput, mRet, mFirst, mCalls, mOther, aPoints, aRet,
                   inputVars, genVars, pvVars, graphVars, callerVars, taskVars>>

\* extract_frames has no handler: what process_video raises reaches the caller
ExtractFramesRaise ==
    /\ pvPc = "raised"
    /\ legacyOut = NoneValue
    /\ legacyOut' = [raised |-> raisedBy]
    /\ UNCHANGED <<frame_cache, mKeypoints, mInput, mRet, mFirst, mCalls, mOther, aPoints, aRet,
                   inputVars, genVars, pvVars, graphVars, callerVars, taskVars>>

\* With the default batch size above the number of frames of the clip no batch
\* fills, so the generator is only ever resumed after its remainder batch.
NextLegacy ==
    \/ ExtractFramesEnter
    \/ GenOpen
    \/ GenOpenFail
    \/ GenEndOfStream
    \/ GenKeepFrame
    \/ GenSkipFrame
    \/ GenFrameRaise
    \/ GenResumeLast
    \/ Submit
    \/ WorkerStart
    \/ WorkerFinish
    \/ WorkerRelease
    \/ Collect
    \/ ExtractFramesAppend
    \/ ClearBatch
    \/ ShutdownDone
    \/ ExtractFramesReturn
    \/ ExtractFramesRaise

SpecLegacy == InitLegacy /\ [][NextLegacy]_vars

\* ---------------------------------------------------------------- metrics helpers
\* Coordinates are written in thousandths, so that a dot product and a product
\* of norms are written in millionths and the 1e-6 of line 252 is one unit.
Epsilon == 1

\* how many times _calculate_metrics is called on the record
MaxCalls == 2

\* the coordinates tried: MaxGrid + 1 values, GridStep thousandths apart.
\* _calculate_angle reads its points only through a - b and c - b, so a
\* small window of the image stands for every placement of the same shape.
GridStep == 40
MaxGrid == 2
Coord == {k * GridStep : k \in 0..MaxGrid}

\* the tuples (x, y, 0) that _calculate_metrics passes to _calculate_angle
Points == {<<x, y, 0>> : x \in Coord, y \in Coord}
AngleInputs == {<<a, b, c>> : a \in Points, b \in Points, c \in Points}

\* every keypoint record: any subset of the tracked joints, and no record (None)
MetricInputs == {NoneValue} \cup {[joints |-> S, of_frame |-> 0] : S \in SUBSET Joints}

Minus(u, v) == <<u[1] - v[1], u[2] - v[2], u[3] - v[3]>>
Dot(u, v) == u[1] * v[1] + u[2] * v[2] + u[3] * v[3]

\* _calculate_angle(a, b, c), lines 249-254, as the range of degrees returned.
\* cosine = dot / (|ba| |bc| + 1e-6) is clipped to [-1, 1]: arccos gives 0 only
\* for a cosine of at least 1, that is dot >= |ba| |bc| + 1e-6, and 180 only
\* for dot <= -(|ba| |bc| + 1e-6); the norms being non-negative, these are
\* compared through their squares.
CalculateAngle(a, b, c) ==
    LET ba  == Minus(a, b)
        bc  == Minus(c, b)
        dot == Dot(ba, bc)
        sq  == Dot(ba, ba) * Dot(bc, bc)
    IN IF dot - Epsilon >= 0 /\ (dot - Epsilon) * (dot - Epsilon) >= sq THEN "0"
       ELSE IF -dot - Epsilon >= 0 /\ (-dot - Epsilon) * (-dot - Epsilon) >= sq THEN "180"
       ELSE IF dot > 0 THEN "(0,90)"
       ELSE IF dot = 0 THEN "90"
       ELSE "(90,180)"

\* the keys of the .get() calls of lines 230-232, in the order of the loop
KeysRead == <<"left_shoulder", "left_elbow", "left_wrist",
              "right_shoulder", "right_elbow", "right_wrist">>

\* variant of the lookup that takes the landmark out of the dict:
\* keypoints.pop(key, None)
DictPop(d, key) == [found |-> key \in d, dict |-> d \ {key}]

\* keypoints.get(key) on the keys d of a keypoints dict: whether a landmark
\* came back, and the keys of the dict after the call
DictGet(d, key) == [found |-> key \in d, dict |-> d]

\* the keys of the dict after the lookups of keys[k..] in turn
RECURSIVE AfterLookups(_, _, _)
AfterLookups(d, keys, k) ==
    IF k > Len(keys) THEN d
    ELSE AfterLookups(DictGet(d, keys[k]).dict, keys, k + 1)

\* one call self._calculate_metrics(keypoints) on a processor whose frame_cache
\* is `cache`: what it returns or raises, and the record and the cache after
\* the call. `"left_wrist" in None` (line 220) raises TypeError before
\* anything else is done; otherwise the body assigns to its local `metrics`
\* and reads the record with `in`, [] and .get(); its only use of self is the
\* call of _calculate_angle, which works on its three arguments.
MetricsCall(keypoints, cache) ==
    IF keypoints = NoneValue
    THEN [ret |-> [raised |-> "TypeError"], keypoints |-> keypoints, frame_cache |-> cache]
    ELSE [ret         |-> [out |-> CalculateMetrics(keypoints)],
          keypoints   |-> [keypoints EXCEPT !.joints = AfterLookups(@, KeysRead, 1)],
          frame_cache |-> cache]

\* what frame_cache may hold when a helper is called: __init__ makes it empty
\* and the class only ever clears it (line 146), but it is a public attribute
\* that a caller of the processor may have filled with frames by number
CacheStates == {{}, {0}, {0, 1}}

\* the records of the calls made between two calls on the record under test:
\* the keypoints of another frame, complete, wrists only, or empty
OtherRecords ==
    {[joints |-> S, of_frame |-> 1] : S \in {Joints, {"left_wrist", "right_wrist"}, {}}}

\* a processor and either any keypoint record and any state of the cache next
\* to one fixed triple of points, or the complete record and the empty cache
\* next to any triple of points
InitMetrics ==
    /\ has_path = TRUE
    /\ F = 0
    /\ sample_rate = 1
    /\ batch_size = DEFAULT_BATCH_SIZE
    /\ max_workers = PoolSize(<<>>, 0)
    /\ RunInit
    /\ CallerInit
    /\ TaskInit
    /\ legacyOut = NoneValue
    /\ \/ /\ mKeypoints \in MetricInputs
          /\ frame_cache \in CacheStates
          /\ aPoints = <<<<0, 0, 0>>, <<0, 0, 0>>, <<0, 0, 0>>>>
       \/ /\ mKeypoints = Keypoints(0)
          /\ frame_cache = {}
          /\ aPoints \in AngleInputs
    /\ mInput = mKeypoints
    /\ mRet = NoneValue
    /\ mFirst = NoneValue
    /\ mCalls = 0
    /\ mOther = NoneValue
    /\ aRet = ""

\* metrics = self._calculate_metrics(keypoints)
CallMetrics ==
    /\ mCalls < MaxCalls
    /\ LET r == MetricsCall(mKeypoints, frame_cache)
       IN /\ mRet' = r.ret
          /\ mFirst' = IF mCalls = 0 THEN r.ret ELSE mFirst
          /\ mKeypoints' = r.keypoints
          /\ frame_cache' = r.frame_cache
    /\ mCalls' = mCalls + 1
    /\ UNCHANGED <<legacyOut, mInput, mOther, aPoints, aRet,
                   inputVars, genVars, pvVars, graphVars, callerVars, taskVars>>

\* self._calculate_metrics(other) for another record, made at any moment
\* before, between or after the calls on the record under test; `at` is the
\* number of calls on that record made before it
CallMetricsOther ==
    /\ mOther = NoneValue
    /\ \E other \in OtherRecords :
          LET r == MetricsCall(other, frame_cache)
          IN /\ mOther' = [at |-> mCalls, given |-> other, ret |-> r.ret, left |-> r.keypoints]
             /\ frame_cache' = r.frame_cache
    /\ UNCHANGED <<legacyOut, mKeypoints, mInput, mRet, mFirst, mCalls, aPoints, aRet,
                   inputVars, genVars, pvVars, graphVars, callerVars, taskVars>>

\* angle = self._calculate_angle(a, b, c)
CallAngle ==
    /\ aRet = ""
    /\ aRet' = CalculateAngle(aPoints[1], aPoints[2], aPoints[3])
    /\ UNCHANGED <<legacyOut, frame_cache, mKeypoints, mInput, mRet, mFirst, mCalls, mOther, aPoints,
                   inputVars, genVars, pvVars, graphVars, callerVars, taskVars>>

NextMetrics ==
    \/ CallMetrics
    \/ CallMetricsOther
    \/ CallAngle

SpecMetrics == InitMetrics /\ [][NextMetrics]_vars

\* ---------------------------------------------------------------- ParallelDataPipeline
\* how many ProcessingTasks are created, and the priorities and timestamps
\* they are given
MaxTasks == 2
MaxPriority == 1
MaxStamp == 1

\* utils.py line 12: the default of `timestamp` is time.time() evaluated once,
\* when the class is defined; it is written 0, later explicit times 1, 2, ...
DefaultTimestamp == 0

\* the task ids, task types (values of TaskType) and payloads the callers use
TaskIds == {"a", "b"}
TaskTypes == {"pose_detection", "report_generation"}
TaskData == {"clip_1", "clip_2"}

\* ProcessingTask(task_id, task_type, data, priority, timestamp); the
\* dataclass has eq over its five fields and no order
ProcessingTask(task_id, task_type, data, priority, timestamp) ==
    [task_id |-> task_id, task_type |-> task_type, data |-> data,
     priority |-> priority, timestamp |-> timestamp]

\* data_pipeline.py line 90: the tuple put on the queue
QueueItem(task) == [priority |-> task.priority, timestamp |-> task.timestamp, task |-> task]

\* x < y on two such tuples: the first position at which the elements are not
\* equal decides; two tasks are equal when their five fields are, and two
\* unequal tasks at the third position have no `<`
ItemLess(x, y) ==
    IF x.priority # y.priority THEN (IF x.priority < y.priority THEN "lt" ELSE "ge")
    ELSE IF x.timestamp # y.timestamp THEN (IF x.timestamp < y.timestamp THEN "lt" ELSE "ge")
    ELSE IF x.task = y.task THEN "ge"
    ELSE "TypeError"

Swap(h, i, j) == [h EXCEPT ![i] = h[j], ![j] = h[i]]

\* heapq's sift towards the root of the item at index i (indices from 1): it
\* rises while it is smaller than its parent; a comparison that raises leaves
\* the list as it is at that moment
RECURSIVE SiftDown(_, _, _)
SiftDown(h, start, i) ==
    IF i <= start THEN [heap |-> h, raised |-> FALSE]
    ELSE LET parent == i \div 2
             c == ItemLess(h[i], h[parent])
         IN IF c = "TypeError" THEN [heap |-> h, raised |-> TRUE]
            ELSE IF c = "lt" THEN SiftDown(Swap(h, i, parent), start, parent)
            ELSE [heap |-> h, raised |-> FALSE]

\* heapq's sift towards the leaves from index i: the smaller child moves up
\* all the way to a leaf, then the item is sifted back towards index start
RECURSIVE SiftUp(_, _, _)
SiftUp(h, start, i) ==
    IF 2 * i > Len(h) THEN SiftDown(h, start, i)
    ELSE LET left == 2 * i
             c == IF left + 1 <= Len(h) THEN ItemLess(h[left], h[left + 1]) ELSE "lt"
             child == IF c = "lt" THEN left ELSE left + 1
         IN IF c = "TypeError" THEN [heap |-> h, raised |-> TRUE]
            ELSE SiftUp(Swap(h, i, child), start, child)

\* PriorityQueue.put: heappush(queue, item)
HeapPush(h, item) == SiftDown(Append(h, item), 1, Len(h) + 1)

\* PriorityQueue.get on a non-empty queue: heappop(queue)
HeapPop(h) ==
    LET last == h[Len(h)]
        rest == SubSeq(h, 1, Len(h) - 1)
    IN IF rest = <<>> THEN [heap |-> rest, raised |-> FALSE, item |-> last]
       ELSE LET r == SiftUp([rest EXCEPT ![1] = last], 1, 1)
            IN [heap |-> r.heap, raised |-> r.raised, item |-> h[1]]

\* a ParallelDataPipeline with an empty input_queue; the video path is not used
InitTasks ==
    /\ has_path = TRUE
    /\ F = 0
    /\ sample_rate = 1
    /\ batch_size = DEFAULT_BATCH_SIZE
    /\ max_workers = PoolSize(<<>>, 0)
    /\ RunInit
    /\ AuxInit
    /\ CallerInit
    /\ TaskInit

\* add_task(ProcessingTask(...)) with some id, type and payload, some
\* priority, and the default timestamp or one the caller gives
AddTask ==
    /\ nTasks < MaxTasks
    /\ \E id \in TaskIds, tt \in TaskTypes, d \in TaskData,
          pr \in 0..MaxPriority, ts \in {DefaultTimestamp} \cup 1..MaxStamp :
          LET r == HeapPush(input_queue,
                            QueueItem(ProcessingTask(id, tt, d, pr, ts)))
          IN /\ input_queue' = r.heap
             /\ taskRaised' = IF r.raised THEN "TypeError" ELSE taskRaised
    /\ nTasks' = nTasks + 1
    /\ UNCHANGED <<dequeued, inputVars, genVars, pvVars, graphVars, auxVars, callerVars>>

\* a worker of process_tasks_parallel, lines 99-113: get_nowait() on a
\* non-empty queue; an exception of the call is logged by the worker
WorkerGet ==
    /\ input_queue # <<>>
    /\ LET r == HeapPop(input_queue)
       IN /\ input_queue' = r.heap
          /\ IF r.raised
             THEN /\ taskRaised' = "TypeError"
                  /\ UNCHANGED dequeued
             ELSE /\ dequeued' = Append(dequeued, [item |-> r.item, before |-> input_queue])
                  /\ UNCHANGED taskRaised
    /\ UNCHANGED <<nTasks, inputVars, genVars, pvVars, graphVars, auxVars, callerVars>>

NextTasks ==
    \/ AddTask
    \/ WorkerGet

SpecTasks == InitTasks /\ [][NextTasks]_vars

\* ---------------------------------------------------------------- a full pass
\* process_video_frames on a video path, iterating process_video to its end
InitLive ==
    /\ Init
    /\ has_path

\* the steps of the video node: the consumer never stops iterating
NextLive ==
    \/ PVNodeEnter
    \/ GenOpen
    \/ GenOpenFail
    \/ GenEndOfStream
    \/ GenKeepFrame
    \/ GenSkipFrame
    \/ GenFrameRaise
    \/ GenResume
    \/ GenResumeLast
    \/ Submit
    \/ WorkerStart
    \/ WorkerFinish
    \/ WorkerRelease
    \/ Collect
    \/ ConsumerAppend
    \/ ClearBatch
    \/ ShutdownDone
    \/ PVNodeReturn
    \/ PVNodeExcept

\* the interpreter and the pool threads keep running: as long as some step of
\* the pass can be taken, one is taken
SpecLive == InitLive /\ [][NextLive]_vars /\ WF_vars(NextLive)

\* ---------------------------------------------------------------- properties
\* the frame numbers of all batches emitted so far, concatenated in emission order
EmittedNumbers == Flatten([k \in 1..Len(emitted) |-> heap[emitted[k]].frame_numbers])

ResultNumbers == [k \in 1..Len(results) |-> results[k].frame_number]

CeilDiv(a, b) == (a + b - 1) \div b

IsPrefix(s, t) == Len(s) <= Len(t) /\ \A k \in 1..Len(s) : s[k] = t[k]

\* process_video has ended normally and its consumer holds the complete list
RunComplete == pvPc = "done"

\* an exception has left _batch_frames and is on its way out of process_video,
\* or has left process_video and its handler (pipeline.py lines 67-69 and
\* 121-126; the caller of extract_frames) has not finished: the traceback
\* holds the frames of both generators with their locals
ExceptionHeld ==
    \/ pvPc = "raising"
    \/ /\ pvPc = "raised"
       /\ nodeOut["process_video_node"] = NoneValue
       /\ legacyOut = NoneValue

\* the locals of _batch_frames exist: the generator is inside its loop or
\* suspended at a yield, or a traceback holds its frame
GenLocalsHeld ==
    \/ genPc \in {"loop", "yielded_full", "yielded_rest"}
    \/ genPc = "raised" /\ ExceptionHeld

\* the locals of process_video exist: it has been started and has not ended,
\* or a traceback holds its frame
PvLocalsHeld ==
    \/ pvPc \in {"next", "submit", "collect", "yielded", "returning", "closing"}
    \/ ExceptionHeld

\* the FrameBatch objects that are referenced: by the local `batch` of
\* _batch_frames and by the loop variable `batch` of process_video
LiveBatches ==
    (IF GenLocalsHeld THEN {genBatch} ELSE {})
        \cup (IF PvLocalsHeld THEN {pvBatch} ELSE {})

\* preprocessed frames referenced by a FrameBatch that is referenced
BatchRefs == UNION {Range(heap[b].frames) : b \in LiveBatches \ {0}}

\* preprocessed frames referenced as the argument of a work item that is
\* queued or that a pool thread has not dropped yet
TaskRefs == {futures[k].frame : k \in {j \in 1..Len(futures) : futures[j].holds_frame}}

\* the local processed_frame of _batch_frames (line 128): the frame that was
\* preprocessed last, until the next one is or the locals go
GenRefs == IF GenLocalsHeld /\ kept # <<>> THEN {kept[Len(kept)]} ELSE {}

\* the preprocessed frames that are still referenced
LiveFrames == BatchRefs \cup TaskRefs \cup GenRefs

\* C1: the list collected from process_video is in strictly ascending
\* frame_number order, whatever the completion order of the worker tasks.
C1_ResultsAscending ==
    RunComplete =>
        \A i, j \in 1..Len(results) :
            i < j => results[i].frame_number < results[j].frame_number

\* C2: concatenating the frame_numbers of the emitted batches gives the sampled
\* indices in source order: always a prefix of them, and all of them once the
\* stream is exhausted.
C2_BatchingLossless ==
    /\ IsPrefix(EmittedNumbers, kept)
    /\ genPc = "exhausted" => EmittedNumbers = kept

C2_Witness ==
    /\ genPc = "exhausted"
    /\ Len(emitted) >= 2
    /\ Len(heap[emitted[Len(emitted)]].frame_numbers) < batch_size
    /\ EmittedNumbers = kept

\* C3: an exhausted stream of F raw frames has put ceil(F / sample_rate) frames
\* into batches, namely the raw indices 0, N, 2N, ...
C3_SampledCount ==
    genPc = "exhausted" =>
        /\ Len(EmittedNumbers) = CeilDiv(F, sample_rate)
        /\ \A k \in 1..Len(EmittedNumbers) : EmittedNumbers[k] = (k - 1) * sample_rate

C3_Witness ==
    /\ genPc = "exhausted"
    /\ sample_rate > 1
    /\ F % sample_rate # 0
    /\ Len(EmittedNumbers) = CeilDiv(F, sample_rate)
    /\ Len(EmittedNumbers) >= 2

\* C4: an inference that raises aborts nothing: process_video raises only when
\* _batch_frames raised, and when the stream is exhausted every sampled frame
\* has been processed and every frame with landmarks has been delivered.
C4_FailureIsolated ==
    /\ pvPc = "raised" => genPc = "raised"
    /\ (RunComplete /\ genPc = "exhausted") =>
          \A f \in Range(kept) :
              /\ outcome[f] # "unseen"
              /\ outcome[f] = "landmarks" => f \in Range(ResultNumbers)

C4_Witness ==
    /\ RunComplete
    /\ Len(emitted) >= 2
    /\ \E f \in Range(heap[emitted[1]].frame_numbers) :
          /\ outcome[f] = "raise"
          /\ \E g \in Range(heap[emitted[1]].frame_numbers) :
                g # f /\ g \in Range(ResultNumbers)
          /\ \E h \in Range(heap[emitted[2]].frame_numbers) : h \in Range(ResultNumbers)

\* C5: a frame whose inference raised is delivered as a result with that
\* frame_number, keypoints = None and an error note.
C5_FailedFrameDelivered ==
    RunComplete =>
        \A f \in Range(kept) :
            outcome[f] = "raise" =>
                \E k \in 1..Len(results) :
                    /\ results[k].frame_number = f
                    /\ results[k].keypoints = NoneValue
                    /\ "error" \in DOMAIN results[k]

\* C6: one result per sampled frame; a frame without landmarks is present with
\* keypoints = None and metrics = {}.
C6_OneResultPerSampledFrame ==
    RunComplete =>
        /\ Len(results) = Len(kept)
        /\ \A k \in 1..Len(results) :
              results[k].keypoints = NoneValue => results[k].metrics = {}
        /\ \A f \in Range(kept) :
              outcome[f] = "none" =>
                  \E k \in 1..Len(results) :
                      /\ results[k].frame_number = f
                      /\ results[k].keypoints = NoneValue
                      /\ results[k].metrics = {}

\* the failure list what fn_process_video hands on: the entries that carry a
\* frame_number
FailureList(out) ==
    IF "errors" \in DOMAIN out
    THEN {out.errors[k] : k \in {j \in 1..Len(out.errors) :
                                   "frame_number" \in DOMAIN out.errors[j]}}
    ELSE {}

\* C7: what the video node returns names every failed frame in a failure list.
C7_FailureListComplete ==
    (RunComplete /\ nodeOut["process_video_node"] # NoneValue) =>
        \A f \in Range(kept) :
            outcome[f] = "raise" =>
                \E e \in FailureList(nodeOut["process_video_node"]) : e.frame_number = f

\* C8: the raw frames still referenced, in a FrameBatch, by a work item or by
\* the generator's local, belong to one batch and number at most batch_size;
\* while _batch_frames is asked for the next batch no future is unresolved
\* and the previous batch's frame list is empty. (The generator's local is
\* the last frame of the batch being filled or just cleared and never makes
\* the difference: the frames of FrameBatches and work items alone break
\* the bound.)
C8_OneBatchInMemory ==
    /\ Cardinality(LiveFrames) <= batch_size
    /\ \A b \in 1..Len(heap) : Len(heap[b].frames) <= batch_size
    /\ LiveFrames = {} \/ \E b \in 1..Len(heap) : LiveFrames \subseteq Range(heap[b].frame_numbers)
    /\ pvPc = "next" =>
          /\ Unfinished(futures) = {}
          /\ pvBatch # 0 => heap[pvBatch].frames = <<>>

\* C9: once the video was opened, a finished sequence (exhausted, abandoned by
\* its consumer, or ended by an exception) has released the capture handle.
C9_CaptureReleased ==
    genPc \in {"exhausted", "raised", "closed"} => cap \in {"released", "failed"}

C9_Witness ==
    /\ genPc = "closed"
    /\ frame_count < F
    /\ cap = "released"

\* C10: when the video cannot be opened no later stage of the run is executed.
C10_OpenFailureAborts ==
    raisedBy = "IOError" =>
        /\ "audio_processing_node" \notin Range(ran)
        /\ "report_generation_node" \notin Range(ran)

\* C11: a run without usable pose data is told apart from a success: when
\* extract_frames returns normally, the list it returns is not empty.
C11_NoUsableDataSignalled ==
    "frames" \in DOMAIN legacyOut => legacyOut.frames # <<>>

\* C12: every emitted batch is non-empty and holds at most batch_size frames,
\* every batch but the last exactly batch_size; a stream without sampled
\* frames emits no batch.
BatchLen(k) == Len(heap[emitted[k]].frame_numbers)

C12_BatchSizes ==
    /\ \A k \in 1..Len(emitted) : BatchLen(k) >= 1 /\ BatchLen(k) <= batch_size
    /\ \A k \in 1..(Len(emitted) - 1) : BatchLen(k) = batch_size
    /\ (genPc = "exhausted" /\ kept = <<>>) => emitted = <<>>

C12_Witness ==
    /\ genPc = "exhausted"
    /\ Len(emitted) >= 2
    /\ BatchLen(1) = batch_size
    /\ BatchLen(Len(emitted)) < batch_size
    /\ BatchLen(Len(emitted)) >= 1

\* the fan-in of batch b has ended: process_video ran `del batch.frames[:]` on it
FanInEnded(b) ==
    /\ b \in Range(emitted)
    /\ b # pvBatch \/ pvPc \in {"next", "returning", "raising", "done", "raised"}

\* C13 as stated: in every state the three lists of every FrameBatch have
\* equal length, also after the fan-in.
C13_EqualLengthsAlways ==
    \A b \in 1..Len(heap) :
        /\ Len(heap[b].frames) = Len(heap[b].frame_numbers)
        /\ Len(heap[b].frame_numbers) = Len(heap[b].timestamps)

\* C13 amended: the three lists have equal length until the fan-in of the
\* batch ends; from then on frames is empty and frame_numbers and timestamps
\* keep their common length.
C13_EqualLengthsUntilCleared ==
    \A b \in 1..Len(heap) :
        /\ Len(heap[b].frame_numbers) = Len(heap[b].timestamps)
        /\ IF FanInEnded(b)
           THEN heap[b].frames = <<>> /\ heap[b].frame_numbers # <<>>
           ELSE Len(heap[b].frames) = Len(heap[b].frame_numbers)

C13_Witness ==
    /\ pvPc = "submit"
    /\ Len(emitted) >= 2
    /\ FanInEnded(emitted[1])
    /\ heap[emitted[1]].frames = <<>>
    /\ Len(heap[emitted[1]].timestamps) = batch_size
    /\ ~FanInEnded(pvBatch)
    /\ Len(heap[pvBatch].frames) = Len(heap[pvBatch].timestamps)
    /\ heap[pvBatch].frames # <<>>

\* C14: never more than max_workers frames are inside _process_single_frame;
\* the pool size is the caller's value, or min(32, cpu_count + 4) with an
\* unknown cpu_count taken as 1 when the argument is omitted.
MaxCpu == 30

C14_WorkerBound ==
    /\ Cardinality(Running(futures)) <= max_workers
    /\ pvPc = "idle" =>
          \A c \in 0..MaxCpu :
              /\ PoolSize(<<>>, c) = (IF c = 0 THEN 5 ELSE IF c + 4 > 32 THEN 32 ELSE c + 4)
              /\ \A n \in 1..MaxWorkers : PoolSize(<<n>>, c) = n

C14_Witness ==
    /\ Len(futures) > max_workers
    /\ Cardinality(Running(futures)) = max_workers
    /\ \E k \in 1..Len(futures) : futures[k].state = "queued"

\* C15: for every keypoint record, _calculate_metrics returns a mapping that
\* has wrist_distance exactly when both wrists are present and
\* <side>_elbow_angle exactly when that side's shoulder, elbow and wrist are
\* all present, and no other key; it does not raise.
C15_MetricKeys ==
    (mCalls >= 1 /\ mInput # NoneValue) =>
        /\ "out" \in DOMAIN mRet
        /\ mRet.out \subseteq {"wrist_distance", "left_elbow_angle", "right_elbow_angle"}
        /\ ("wrist_distance" \in mRet.out) <=>
               ("left_wrist" \in mInput.joints /\ "right_wrist" \in mInput.joints)
        /\ \A side \in {"left", "right"} :
               (side \o "_elbow_angle" \in mRet.out) <=>
                   /\ side \o "_shoulder" \in mInput.joints
                   /\ side \o "_elbow" \in mInput.joints
                   /\ side \o "_wrist" \in mInput.joints

\* a record with both wrists, a complete left arm and no right elbow has
\* been given to _calculate_metrics
C15_Witness ==
    /\ mCalls >= 1
    /\ "joints" \in DOMAIN mInput
    /\ mInput.joints = {"left_wrist", "right_wrist", "left_elbow",
                        "left_shoulder", "right_shoulder"}
    /\ mRet = [out |-> {"wrist_distance", "left_elbow_angle"}]

\* C16: _calculate_metrics(None) returns the empty mapping and does not raise.
C16_NoneGivesEmpty ==
    (mCalls >= 1 /\ mInput = NoneValue) => mRet = [out |-> {}]

C18_BoundaryAngles ==
    aRet # "" =>
        LET ba == Minus(aPoints[1], aPoints[2])
            bc == Minus(aPoints[3], aPoints[2])
        IN /\ (ba[1] * bc[2] = ba[2] * bc[1] /\ Dot(ba, bc) < 0) => aRet = "180"
           /\ (aPoints[1] = aPoints[3] /\ aPoints[1] # aPoints[2]) => aRet = "0"

\* C19: when the run is abandoned while a batch is in flight, no result of
\* that batch has reached the consumer's list.
C19_NoPartialBatch ==
    pvPc \in {"closing", "closed"} =>
        \A k \in 1..Len(results) :
            results[k].frame_number \notin Range(heap[pvBatch].frame_numbers)

\* the positions of process_video_frames at which the coroutine is suspended
\* in an await that gives the event loop to other coroutines: its body
\* (pipeline.py lines 53-66) has none, the for loop runs the generator inline
SuspensionPoints == {}

\* the coroutine fn_process_video -> process_video_frames is inside the loop
\* over process_video
Driving == pvPc \in {"next", "submit", "collect", "yielded"}

\* C20: while the frames of a batch are in the pool the driving coroutine is
\* suspended, so the event loop can run other coroutines.
C20_DriverSuspended ==
    (Driving /\ Unfinished(futures) # {}) => pvPc \in SuspensionPoints

\* ---------------------------------------------------------------- C21..C30
NoDuplicates(seq) == \A i, j \in 1..Len(seq) : i # j => seq[i] # seq[j]

\* the frame numbers process_video has yielded so far: those its consumer
\* appended, then the one it was handed last
DeliveredNumbers ==
    ResultNumbers \o (IF yielded = NoneValue THEN <<>> ELSE <<yielded.frame_number>>)

\* the frame numbers submitted to the executor so far, in submission order
SubmittedNumbers == [k \in 1..Len(futures) |-> futures[k].frame_num]

\* C21: every sampled frame is in one batch only and is submitted once, in
\* the order of the batches: what has been submitted is always the beginning
\* of what has been emitted, and all of it once the submission of a batch is
\* over. A work item that a worker has taken is never taken again, a finished
\* one keeps its result, and no frame number is delivered twice.
C21_ExactlyOnce ==
    /\ [](/\ NoDuplicates(EmittedNumbers)
          /\ NoDuplicates(SubmittedNumbers)
          /\ IsPrefix(SubmittedNumbers, EmittedNumbers)
          /\ pvPc # "submit" => SubmittedNumbers = EmittedNumbers
          /\ NoDuplicates(DeliveredNumbers))
    /\ [][/\ Len(futures') >= Len(futures)
          /\ \A k \in 1..Len(futures) :
                /\ futures'[k].frame_num = futures[k].frame_num
                /\ futures[k].state = "running" => futures'[k].state # "queued"
                /\ futures[k].state = "done" =>
                       /\ futures'[k].state = "done"
                       /\ futures'[k].result = futures[k].result
                /\ futures[k].consumed => futures'[k].consumed]_vars

\* the two frames of the first batch were worked on at once and delivered in
\* the reverse of submission order, and the second batch has been submitted
\* and is being worked on
C21_Witness ==
    /\ Len(emitted) >= 2
    /\ Len(results) >= 2
    /\ results[1].frame_number > results[2].frame_number
    /\ pvPc = "collect"
    /\ \E k \in OfBatch(futures, pvBatch) : futures[k].state = "running"
    /\ OfBatch(futures, pvBatch) # 1..Len(futures)

Runs(n) == {k \in 1..Len(ran) : ran[k] = n}

\* C23: the report node runs once, after the video node and the audio node.
C23_ReportAfterBoth ==
    /\ Cardinality(Runs("report_generation_node")) <= 1
    /\ \A k \in Runs("report_generation_node") :
           /\ \E j \in Runs("process_video_node") : j < k
           /\ \E j \in Runs("audio_processing_node") : j < k

\* C24: a report node that is given neither frames nor a transcript does not
\* call generate_report and returns the 'No analysis results available for
\* report generation' entry appended to errors.
C24_NoResultsNoReport ==
    ("report_generation_node" \in ranStep /\ gstate.frames = <<>> /\ gstate.transcript = "") =>
        /\ llmCall = NoneValue
        /\ nodeOut["report_generation_node"] =
               [errors |-> Append(gstate.errors, ErrorEntry("report_generation",
                   "No analysis results available for report generation"))]

\* C25: when the model call inside generate_report raised, the report node
\* stores no report and appends a report_generation entry to errors.
C25_FailedReportRecorded ==
    ("report_generation_node" \in ranStep /\ llmCall # NoneValue /\ llmCall.llm = "raises") =>
        LET out == nodeOut["report_generation_node"]
        IN /\ "report" \notin DOMAIN out
           /\ Len(out.errors) = Len(gstate.errors) + 1
           /\ out.errors[Len(out.errors)].step = "report_generation"

\* C26: generate_report is given the metrics the video node returned, in
\* order, and the transcript the audio node returned, by the report node and
\* by main.generate_reports.
C26_ReportInputsFromRun ==
    LET pv    == nodeOut["process_video_node"]
        audio == nodeOut["audio_processing_node"]
    IN /\ (llmCall # NoneValue /\ "pose_metrics" \in DOMAIN pv) =>
              llmCall.pose_metrics = pv.pose_metrics
       /\ (llmCall # NoneValue /\ "transcript" \in DOMAIN audio) =>
              llmCall.transcription = audio.transcript
       /\ (raOut # NoneValue /\ "pose_metrics" \in DOMAIN pv) =>
              MainReportArgs(raOut).pose_metrics = pv.pose_metrics
       /\ (raOut # NoneValue /\ "transcript" \in DOMAIN audio) =>
              MainReportArgs(raOut).transcription = audio.transcript

\* C27: the errors list a node returns starts with the errors list of the
\* state it was given, on each of its paths.
C27_ErrorsAppendOnly ==
    \A n \in ranStep :
        /\ "errors" \in DOMAIN nodeOut[n]
        /\ IsPrefix(gstate.errors, nodeOut[n].errors)

\* the audio node and the report node were given a state with an error entry
\* of the video node, and both failed
C27_Witness ==
    /\ ranStep = {"audio_processing_node", "report_generation_node"}
    /\ Len(gstate.errors) = 1
    /\ Len(nodeOut["audio_processing_node"].errors) = 2
    /\ Len(nodeOut["report_generation_node"].errors) = 2

\* (priority, timestamp) of x is smaller than that of y
KeyLess(x, y) ==
    \/ x.priority < y.priority
    \/ x.priority = y.priority /\ x.timestamp < y.timestamp

\* C28: no call on input_queue raises, whatever tasks are added, and every
\* item a worker takes has the smallest (priority, timestamp) of the queue
\* it was taken from.
C28_AddAndDequeueInOrder ==
    /\ taskRaised = ""
    /\ \A k \in 1..Len(dequeued) :
           \A j \in 1..Len(dequeued[k].before) :
               ~KeyLess(dequeued[k].before[j], dequeued[k].item)

\* every result a worker has produced: held by a future, yielded, or collected
ProducedResults ==
    {futures[k].result : k \in {j \in 1..Len(futures) : futures[j].result # NoneValue}}
        \cup (IF yielded = NoneValue THEN {} ELSE {yielded})
        \cup Range(results)

\* what _batch_frames recorded next to raw frame f (lines 130-135)
RecordedFor(f) ==
    UNION {{[frame_number |-> heap[b].frame_numbers[k], timestamp |-> heap[b].timestamps[k]] :
               k \in {j \in 1..Len(heap[b].frame_numbers) :
                         heap[b].frame_numbers[j] = f /\ f \in Range(kept)}} :
           b \in 1..Len(heap)}

Terminated == pvPc \in {"done", "raised"}

\* C30: a process_video that is iterated to its end terminates, and then no
\* submitted task is unfinished, no pool thread has a work item, the generator
\* of batches has ended and the video handle is not left open.
C30_Terminates ==
    /\ (pvPc = "next") ~> Terminated
    /\ [](Terminated =>
            /\ Unfinished(futures) = {}
            /\ Busy(futures) = {}
            /\ genPc \in {"exhausted", "raised"}
            /\ cap # "open")

\* a pass over two batches has ended normally, with a frame without a pose
C30_Witness ==
    /\ pvPc = "done"
    /\ Len(emitted) >= 2
    /\ \E f \in 0..(MaxFrames - 1) : outcome[f] = "none"
    /\ cap = "released"

====
